---- MODULE Spec2Model ----
(***************************************************************************)
(* Model of the live sales dashboard: src/app/page.tsx (the DashboardPage *)
(* component, fetchData and getWeeksOfMonth) and the two GET handlers of   *)
(* src/unnamed/part_000.                                                   *)
(*                                                                         *)
(* Strings the code assembles from words are modelled as tuples of their   *)
(* words: "April 2024" is <<"April", "2024">>, 'all' is <<"all">>, a       *)
(* formatted date "2024-04-03" is <<2024, 4, 3>> and 'Unknown' is          *)
(* <<"Unknown">>.  A dayjs object is a record [valid, t] with t counted in *)
(* ticks, TicksPerDay ticks to the local calendar day.                     *)
(***************************************************************************)
EXTENDS Integers, Sequences, FiniteSets, TLC

(***************************************************************************)
(* Bounds of the model.                                                    *)
(***************************************************************************)
TicksPerDay == 3
FirstYear == 2023
NumYears == 3

Years == FirstYear .. (FirstYear + NumYears - 1)

(***************************************************************************)
(* The calendar behind dayjs (local time, proleptic Gregorian).            *)
(***************************************************************************)
MonthNames ==
  <<"January", "February", "March", "April", "May", "June", "July",
    "August", "September", "October", "November", "December">>

\* Days since 1970-01-01 of the civil date y-m-d.
DaysFromCivil(y, m, d) ==
  LET yy  == IF m <= 2 THEN y - 1 ELSE y
      era == yy \div 400
      yoe == yy - era * 400
      mp  == IF m > 2 THEN m - 3 ELSE m + 9
      doy == (153 * mp + 2) \div 5 + d - 1
      doe == yoe * 365 + yoe \div 4 - yoe \div 100 + doy
  IN  era * 146097 + doe - 719468

\* The civil date <<y, m, d>> of a day number.
CivilFromDays(z) ==
  LET zz  == z + 719468
      era == zz \div 146097
      doe == zz - era * 146097
      yoe == (doe - doe \div 1460 + doe \div 36524 - doe \div 146096) \div 365
      doy == doe - (365 * yoe + yoe \div 4 - yoe \div 100)
      mp  == (5 * doy + 2) \div 153
      d   == doy - (153 * mp + 2) \div 5 + 1
      m   == IF mp < 10 THEN mp + 3 ELSE mp - 9
      y   == yoe + era * 400 + (IF m <= 2 THEN 1 ELSE 0)
  IN  <<y, m, d>>

\* 0 = Sunday ... 6 = Saturday (1970-01-01 was a Thursday).
DayOfWeek(day) == (day + 4) % 7

(***************************************************************************)
(* dayjs values and the dayjs calls the page makes.                        *)
(***************************************************************************)
InvalidDate == [valid |-> FALSE, t |-> 0]

At(day, tick) == [valid |-> TRUE, t |-> day * TicksPerDay + tick]

DayOf(x) == x.t \div TicksPerDay

\* x.startOf('month')
startOfMonthOf(x) ==
  IF ~x.valid THEN InvalidDate
  ELSE LET c == CivilFromDays(DayOf(x))
       IN  At(DaysFromCivil(c[1], c[2], 1), 0)

\* x.endOf('month'): the last tick of the last day of x's month
endOfMonthOf(x) ==
  IF ~x.valid THEN InvalidDate
  ELSE LET c  == CivilFromDays(DayOf(x))
           ny == IF c[2] = 12 THEN c[1] + 1 ELSE c[1]
           nm == IF c[2] = 12 THEN 1 ELSE c[2] + 1
       IN  At(DaysFromCivil(ny, nm, 1) - 1, TicksPerDay - 1)

\* A week that starts on Monday: the last tick of the Sunday that ends it.
endOfWeekMondayStart(x) ==
  IF ~x.valid THEN InvalidDate
  ELSE At(DayOf(x) + ((7 - DayOfWeek(DayOf(x))) % 7), TicksPerDay - 1)

\* x.endOf('week'): the last tick of the Saturday of x's week (weeks start on
\* Sunday in dayjs's default locale)
endOfWeekOf(x) ==
  IF ~x.valid THEN InvalidDate
  ELSE At(DayOf(x) + (6 - DayOfWeek(DayOf(x))), TicksPerDay - 1)

\* x.add(n, 'day') and x.subtract(n, 'day')
addDays(x, n) ==
  IF ~x.valid THEN InvalidDate ELSE [valid |-> TRUE, t |-> x.t + n * TicksPerDay]

subtractDays(x, n) == addDays(x, 0 - n)

\* a.isBefore(b), a.isAfter(b): comparisons of the time values, false when
\* either is an invalid date (NaN)
isBefore(a, b) == a.valid /\ b.valid /\ a.t < b.t

isAfter(a, b) == a.valid /\ b.valid /\ a.t > b.t

\* a.isSame(b, 'day')
isSameDay(a, b) == a.valid /\ b.valid /\ DayOf(a) = DayOf(b)

\* x.format('YYYY-MM-DD') of a valid date
formatDate(x) == CivilFromDays(DayOf(x))

\* x.format('MMMM') and x.format('YYYY') of a valid date
formatMonth(x) == MonthNames[CivilFromDays(DayOf(x))[2]]

formatYear(x) == ToString(CivilFromDays(DayOf(x))[1])

\* dayjs(`${monthName} 1, ${year}`): local midnight of the first of the month,
\* an invalid date when the words are no month name and year
parseMonthFirst(monthName, year) ==
  IF /\ \E i \in 1..12 : MonthNames[i] = monthName
     /\ \E y \in Years : ToString(y) = year
  THEN LET i == CHOOSE i \in 1..12 : MonthNames[i] = monthName
           y == CHOOSE y \in Years : ToString(y) = year
       IN  At(DaysFromCivil(y, i, 1), 0)
  ELSE InvalidDate

\* dayjs('YYYY-MM-DD'): local midnight of a formatted date, an invalid date
\* for 'Unknown'
parseDate(s) ==
  IF Len(s) = 3 THEN At(DaysFromCivil(s[1], s[2], s[3]), 0) ELSE InvalidDate

(***************************************************************************)
(* getWeeksOfMonth                                                         *)
(***************************************************************************)
\* the while condition
weekLoopCond(cur, endOfMonth) ==
  isBefore(cur, endOfMonth) \/ isSameDay(cur, endOfMonth)

\* weekEnd without the clamp to the end of the month
weekEndUnclamped(cur, endOfMonth) == endOfWeekOf(cur)

\* weekEnd of one iteration
weekEndOf(cur, endOfMonth) ==
  LET weekEnd == endOfWeekOf(cur)
  IN  IF isAfter(weekEnd, endOfMonth) THEN endOfMonth ELSE weekEnd

\* the range one iteration pushes
weekRangeOf(cur, endOfMonth) ==
  [start |-> formatDate(cur), end |-> formatDate(weekEndOf(cur, endOfMonth))]

\* current after one iteration
weekNextCurrent(cur, endOfMonth) == addDays(weekEndOf(cur, endOfMonth), 1)

weekStartOfMonth(my) == startOfMonthOf(parseMonthFirst(my[1], my[2]))

RECURSIVE weekLoop(_, _, _)
weekLoop(cur, endOfMonth, acc) ==
  IF weekLoopCond(cur, endOfMonth)
  THEN weekLoop(weekNextCurrent(cur, endOfMonth), endOfMonth,
                Append(acc, weekRangeOf(cur, endOfMonth)))
  ELSE acc

getWeeksOfMonth(my) ==
  LET som == weekStartOfMonth(my)
  IN  weekLoop(som, endOfMonthOf(som), <<>>)

\* The "Month Year" strings of the modelled years, and the label of the
\* 'Unknown' bucket.
ValidMonthYears == {<<MonthNames[i], ToString(y)>> : i \in 1..12, y \in Years}

UnknownMonthYear == <<"Unknown", "Unknown">>

(***************************************************************************)
(* getWeeksOfMonth run step by step on one input.                          *)
(***************************************************************************)
VARIABLES monthYear, current, weeks, wpc

weekVars == <<monthYear, current, weeks, wpc>>

WeeksIdle ==
  /\ monthYear = <<"all">>
  /\ current = InvalidDate
  /\ weeks = <<>>
  /\ wpc = "idle"

WeeksInit ==
  /\ monthYear \in ValidMonthYears \cup {UnknownMonthYear}
  /\ current = InvalidDate
  /\ weeks = <<>>
  /\ wpc = "call"

WeeksEnter ==
  /\ wpc = "call"
  /\ current' = weekStartOfMonth(monthYear)
  /\ wpc' = "loop"
  /\ UNCHANGED <<monthYear, weeks>>

WeeksIterate ==
  /\ wpc = "loop"
  /\ weekLoopCond(current, endOfMonthOf(weekStartOfMonth(monthYear)))
  /\ weeks' = Append(weeks,
                     weekRangeOf(current, endOfMonthOf(weekStartOfMonth(monthYear))))
  /\ current' = weekNextCurrent(current, endOfMonthOf(weekStartOfMonth(monthYear)))
  /\ UNCHANGED <<monthYear, wpc>>

WeeksReturn ==
  /\ wpc = "loop"
  /\ ~weekLoopCond(current, endOfMonthOf(weekStartOfMonth(monthYear)))
  /\ wpc' = "done"
  /\ UNCHANGED <<monthYear, current, weeks>>

(***************************************************************************)
(* fetchData: the normalization of the raw rows.                           *)
(*                                                                         *)
(* A raw row is [Date, SalesPerson, Client, Revenue]; an absent or empty   *)
(* cell is <<>> for Date and "" for the others.  The text of a Date cell   *)
(* is <<y, m, d>> (a date), <<y, m, d, tick>> (a date with a time of day)  *)
(* or <<"n/a">> (text dayjs cannot parse).                                 *)
(***************************************************************************)
MaxRows == 2

\* dayjs(row.Date)
parseRawDate(s) ==
  IF Len(s) = 3 THEN At(DaysFromCivil(s[1], s[2], s[3]), 0)
  ELSE IF Len(s) = 4 THEN At(DaysFromCivil(s[1], s[2], s[3]), s[4])
  ELSE InvalidDate

\* Number(row.Revenue) || 0: the number a numeric text spells, 0 otherwise
RevenueRange == 0..200

NumberOrZero(s) ==
  IF \E n \in RevenueRange : ToString(n) = s
  THEN CHOOSE n \in RevenueRange : ToString(n) = s
  ELSE 0

\* sheetData.filter((r) => r.Date && r.Revenue)
IsValidRow(r) == r.Date # <<>> /\ r.Revenue # ""

RECURSIVE validRowsOf(_)
validRowsOf(rows) ==
  IF rows = <<>> THEN <<>>
  ELSE LET before == validRowsOf(SubSeq(rows, 1, Len(rows) - 1))
       IN  IF IsValidRow(rows[Len(rows)]) THEN Append(before, rows[Len(rows)])
           ELSE before

Unknown == <<"Unknown">>

\* the date, month and year keys of a row
dateKeyOf(row) ==
  LET dateObj == parseRawDate(row.Date)
  IN  IF dateObj.valid THEN formatDate(dateObj) ELSE Unknown

monthOf(row) ==
  LET dateObj == parseRawDate(row.Date)
  IN  IF dateObj.valid THEN formatMonth(dateObj) ELSE "Unknown"

yearOf(row) ==
  LET dateObj == parseRawDate(row.Date)
  IN  IF dateObj.valid THEN formatYear(dateObj) ELSE "Unknown"

\* index of the entry of an insertion-ordered map with the given key, 0 if none
indexOfDate(map, date) ==
  IF \E i \in 1..Len(map) : map[i].Date = date
  THEN CHOOSE i \in 1..Len(map) : map[i].Date = date
  ELSE 0

indexOfName(map, name) ==
  IF \E i \in 1..Len(map) : map[i].name = name
  THEN CHOOSE i \in 1..Len(map) : map[i].name = name
  ELSE 0

seqIncludes(s, x) == \E i \in 1..Len(s) : s[i] = x

\* if (!dailyMap[date]) dailyMap[date] = {...}
dailyMapEnsure(map, row) ==
  IF indexOfDate(map, dateKeyOf(row)) = 0
  THEN Append(map, [Date |-> dateKeyOf(row), Month |-> monthOf(row),
                    Year |-> yearOf(row), SalesCount |-> 0, Revenue |-> 0,
                    Clients |-> <<>>])
  ELSE map

\* a forEach body that stores the row's revenue in place of adding it
dailyMapStore(map, row) ==
  LET m == dailyMapEnsure(map, row)
      i == indexOfDate(m, dateKeyOf(row))
      e == m[i]
  IN  [m EXCEPT ![i] =
         [e EXCEPT !.SalesCount = e.SalesCount + 1,
                   !.Revenue = NumberOrZero(row.Revenue),
                   !.Clients = IF row.Client # "" /\ ~seqIncludes(e.Clients, row.Client)
                               THEN Append(e.Clients, row.Client)
                               ELSE e.Clients]]

\* one pass of the forEach body over dailyMap
dailyMapAdd(map, row) ==
  LET m == dailyMapEnsure(map, row)
      i == indexOfDate(m, dateKeyOf(row))
      e == m[i]
  IN  [m EXCEPT ![i] =
         [e EXCEPT !.SalesCount = e.SalesCount + 1,
                   !.Revenue = e.Revenue + NumberOrZero(row.Revenue),
                   !.Clients = IF row.Client # "" /\ ~seqIncludes(e.Clients, row.Client)
                               THEN Append(e.Clients, row.Client)
                               ELSE e.Clients]]

\* one pass of the forEach body over personMap
personMapAdd(map, row) ==
  LET person == IF row.SalesPerson # "" THEN row.SalesPerson ELSE "Unknown"
      m == IF indexOfName(map, person) = 0
           THEN Append(map, [name |-> person, revenue |-> 0])
           ELSE map
      i == indexOfName(m, person)
  IN  [m EXCEPT ![i].revenue = m[i].revenue + NumberOrZero(row.Revenue)]

\* a.Date.localeCompare(b.Date) < 0: formatted dates in calendar order, the
\* text 'Unknown' after every date
dateLess(a, b) ==
  IF Len(a) = 3 /\ Len(b) = 3
  THEN \/ a[1] < b[1]
       \/ a[1] = b[1] /\ a[2] < b[2]
       \/ a[1] = b[1] /\ a[2] = b[2] /\ a[3] < b[3]
  ELSE Len(a) = 3 /\ Len(b) # 3

\* insertion of one row into a list sorted by Date (stable)
RECURSIVE insertByDate(_, _)
insertByDate(sorted, x) ==
  IF sorted = <<>> THEN <<x>>
  ELSE IF dateLess(x.Date, Head(sorted).Date) THEN <<x>> \o sorted
  ELSE <<Head(sorted)>> \o insertByDate(Tail(sorted), x)

\* Object.values(dailyMap).sort((a, b) => a.Date.localeCompare(b.Date))
RECURSIVE sortByDate(_)
sortByDate(rows) ==
  IF rows = <<>> THEN <<>>
  ELSE insertByDate(sortByDate(SubSeq(rows, 1, Len(rows) - 1)), rows[Len(rows)])

monthYearOf(r) == <<r.Month, r.Year>>

\* Array.from(new Set(aggregated.map(...))): distinct labels, first seen first
RECURSIVE uniqueMonthsOf(_)
uniqueMonthsOf(rows) ==
  IF rows = <<>> THEN <<>>
  ELSE LET before == uniqueMonthsOf(SubSeq(rows, 1, Len(rows) - 1))
           label  == monthYearOf(rows[Len(rows)])
       IN  IF seqIncludes(before, label) THEN before ELSE Append(before, label)

\* the forEach over the valid rows
RECURSIVE dailyMapOf(_)
dailyMapOf(rows) ==
  IF rows = <<>> THEN <<>>
  ELSE dailyMapAdd(dailyMapOf(SubSeq(rows, 1, Len(rows) - 1)), rows[Len(rows)])

RECURSIVE personMapOf(_)
personMapOf(rows) ==
  IF rows = <<>> THEN <<>>
  ELSE personMapAdd(personMapOf(SubSeq(rows, 1, Len(rows) - 1)), rows[Len(rows)])

aggregatedOf(rows) == sortByDate(dailyMapOf(validRowsOf(rows)))

personArrayOf(rows) == personMapOf(validRowsOf(rows))

(***************************************************************************)
(* The aggregation run row by row on one sheet.                            *)
(***************************************************************************)
VARIABLES sheetData, rowIndex, dailyMap, personMap, aggregated, npc

normVars == <<sheetData, rowIndex, dailyMap, personMap, aggregated, npc>>

NormDates == {<<2024, 4, 3>>, <<2024, 4, 3, 1>>, <<2024, 5, 4>>, <<"n/a">>, <<>>}

NormRevenues == {"100", "abc", ""}

NormRows ==
  {[Date |-> d, Revenue |-> r, Client |-> cp[1], SalesPerson |-> cp[2]] :
     d \in NormDates, r \in NormRevenues, cp \in {<<"A", "P">>, <<"", "">>}}

RECURSIVE SeqsUpTo(_, _)
SeqsUpTo(S, n) ==
  IF n = 0 THEN {<<>>}
  ELSE LET shorter == SeqsUpTo(S, n - 1)
       IN  shorter \cup {Append(s, x) : s \in {q \in shorter : Len(q) = n - 1}, x \in S}

NormIdle ==
  /\ sheetData = <<>>
  /\ rowIndex = 0
  /\ dailyMap = <<>>
  /\ personMap = <<>>
  /\ aggregated = <<>>
  /\ npc = "idle"

NormInit ==
  /\ sheetData \in SeqsUpTo(NormRows, MaxRows)
  /\ rowIndex = 0
  /\ dailyMap = <<>>
  /\ personMap = <<>>
  /\ aggregated = <<>>
  /\ npc = "forEach"

NormRow ==
  /\ npc = "forEach"
  /\ rowIndex < Len(validRowsOf(sheetData))
  /\ rowIndex' = rowIndex + 1
  /\ dailyMap' = dailyMapAdd(dailyMap, validRowsOf(sheetData)[rowIndex + 1])
  /\ personMap' = personMapAdd(personMap, validRowsOf(sheetData)[rowIndex + 1])
  /\ UNCHANGED <<sheetData, aggregated, npc>>

NormSort ==
  /\ npc = "forEach"
  /\ rowIndex = Len(validRowsOf(sheetData))
  /\ aggregated' = sortByDate(dailyMap)
  /\ npc' = "done"
  /\ UNCHANGED <<sheetData, rowIndex, dailyMap, personMap>>

(***************************************************************************)
(* The spreadsheet endpoint and what fetch() hands to fetchData.           *)
(***************************************************************************)
\* GET of the key-file variant: the rows of the sheet, or { error } with
\* status 500 when reading the sheet throws
GET(sheet) ==
  IF sheet.ok
  THEN [status |-> 200, hasData |-> TRUE, data |-> sheet.rows]
  ELSE [status |-> 500, hasData |-> FALSE, data |-> <<>>]

\* GET of the environment-credential variant: it also throws, into the same
\* catch, when a credential variable is missing
GETEnv(envOk, sheet) ==
  IF envOk /\ sheet.ok
  THEN [status |-> 200, hasData |-> TRUE, data |-> sheet.rows]
  ELSE [status |-> 500, hasData |-> FALSE, data |-> <<>>]

\* json.data || []
sheetDataOf(json) == IF json.hasData THEN json.data ELSE <<>>

(***************************************************************************)
(* DashboardPage                                                           *)
(***************************************************************************)
MaxSheetRows == 2
MaxFetches == 2
MaxClock == 1

\* selectedWeek = null
null == [start |-> <<>>, end |-> <<>>]

all == <<"all">>

\* The rows a sheet of the modelled runs may hold.
PageRows ==
  {[Date |-> d, Revenue |-> "100", Client |-> "A", SalesPerson |-> "P"] :
     d \in {<<2024, 4, 20>>, <<2024, 5, 5>>, <<"n/a">>}}

Sheets ==
  {[ok |-> TRUE, rows |-> r] : r \in SeqsUpTo(PageRows, MaxSheetRows)}
    \cup {[ok |-> FALSE, rows |-> <<>>]}

Responses == {GET(sh) : sh \in Sheets} \cup {GETEnv(e, sh) : e \in BOOLEAN, sh \in Sheets}

\* What fetchData's try block computes from the parsed response and hands to
\* the setters.
fetchDataLocals(json) ==
  LET rows == sheetDataOf(json)
  IN  [aggregated |-> aggregatedOf(rows),
       personArray |-> personArrayOf(rows),
       uniqueMonths |-> uniqueMonthsOf(aggregatedOf(rows))]

\* The status of each response with what the try block computes from it.
Answers == {[status |-> j.status, locals |-> fetchDataLocals(j)] : j \in Responses}

\* The useState values of the committed render; the effects of that render
\* still to run; whether the interval is set; the requests in flight, by
\* stamp of issue; the last response fetchData processed (its stamp, whether
\* the response processed before it answered a request issued later, its
\* status and the aggregates computed from it); the ticks elapsed.
VARIABLES data, filteredData, salesByPerson, filter, selectedMonth,
          availableMonths, showWeekPicker, selectedWeek,
          effects, timerOn, inflight, issued, lastResponse, clock

stateVars == <<data, filteredData, salesByPerson, filter, selectedMonth,
               availableMonths, showWeekPicker, selectedWeek>>

pageVars == <<stateVars, effects, timerOn, inflight, issued, lastResponse, clock>>

\* dayjs(): the clock starts at the last tick of 2024-05-04
now == [valid |-> TRUE, t |-> (DaysFromCivil(2024, 5, 4) + 1) * TicksPerDay - 1 + clock]

\* The filter effect's value of `filtered`.
inSelectedWeek(item, week) ==
  LET d == parseDate(item.Date)
  IN  ~isBefore(d, parseDate(week.start)) /\ ~isAfter(d, parseDate(week.end))

inLastDays(item, n, t) == isAfter(parseDate(item.Date), subtractDays(t, n))

isToday(item, t) == isSameDay(parseDate(item.Date), t)

\* a mode filter whose 'all' mode keeps the last 30 days, as 'monthly' does
modeFilteredAllAsMonthly(d, f, month, week, t) ==
  IF f = "daily" THEN SelectSeq(d, LAMBDA item : isToday(item, t))
  ELSE IF f = "weekly"
  THEN IF week # null /\ month # all
       THEN SelectSeq(d, LAMBDA item : inSelectedWeek(item, week))
       ELSE SelectSeq(d, LAMBDA item : inLastDays(item, 7, t))
  ELSE SelectSeq(d, LAMBDA item : inLastDays(item, 30, t))

modeFiltered(d, f, month, week, t) ==
  IF f = "daily" THEN SelectSeq(d, LAMBDA item : isToday(item, t))
  ELSE IF f = "weekly"
  THEN IF week # null /\ month # all
       THEN SelectSeq(d, LAMBDA item : inSelectedWeek(item, week))
       ELSE SelectSeq(d, LAMBDA item : inLastDays(item, 7, t))
  ELSE IF f = "monthly" THEN SelectSeq(d, LAMBDA item : inLastDays(item, 30, t))
  ELSE d

filtered(d, f, month, week, t) ==
  IF month # all /\ f # "weekly"
  THEN SelectSeq(modeFiltered(d, f, month, week, t),
                 LAMBDA r : monthYearOf(r) = month)
  ELSE modeFiltered(d, f, month, week, t)

\* const weeks = selectedMonth !== 'all' ? getWeeksOfMonth(selectedMonth) : []
weeksOfSelectedMonth ==
  IF selectedMonth # all THEN getWeeksOfMonth(selectedMonth) ELSE <<>>

\* The effects whose dependencies differ between the committed render and the
\* next one: [selectedMonth] for the week reset, [filter, data, selectedMonth,
\* selectedWeek] for the filter effect.  dataIsNew and weekIsNew say that the
\* setter was handed a fresh array or object.
effectsAfter(f, month, week, dataIsNew, weekIsNew) ==
  (IF month # selectedMonth THEN {"weekReset"} ELSE {})
    \cup (IF \/ f # filter
             \/ dataIsNew
             \/ month # selectedMonth
             \/ week # selectedWeek
             \/ weekIsNew
          THEN {"filter"} ELSE {})

PageIdle ==
  /\ data = <<>>
  /\ filteredData = <<>>
  /\ salesByPerson = <<>>
  /\ filter = "all"
  /\ selectedMonth = all
  /\ availableMonths = <<>>
  /\ showWeekPicker = FALSE
  /\ selectedWeek = null
  /\ effects = {}
  /\ timerOn = FALSE
  /\ inflight = {}
  /\ issued = 0
  /\ lastResponse = [stamp |-> 0, late |-> FALSE, status |-> 0, aggregated |-> <<>>]
  /\ clock = 0

\* The first render: the useState defaults, every effect still to run.
PageInit ==
  /\ data = <<>>
  /\ filteredData = <<>>
  /\ salesByPerson = <<>>
  /\ filter = "all"
  /\ selectedMonth = all
  /\ availableMonths = <<>>
  /\ showWeekPicker = FALSE
  /\ selectedWeek = null
  /\ effects = {"weekReset", "filter", "autoRefresh"}
  /\ timerOn = FALSE
  /\ inflight = {}
  /\ issued = 0
  /\ lastResponse = [stamp |-> 0, late |-> FALSE, status |-> 0, aggregated |-> <<>>]
  /\ clock = 0

\* fetchData up to its await: one more request in flight.  The stamps order
\* the requests by issue; they start again at 1 when none is in flight.
startFetch ==
  IF inflight = {}
  THEN /\ issued' = 1
       /\ inflight' = {1}
       /\ lastResponse' = [lastResponse EXCEPT !.stamp = 0, !.late = FALSE]
  ELSE /\ issued' = issued + 1
       /\ inflight' = inflight \cup {issued + 1}
       /\ UNCHANGED lastResponse

\* The effects of the committed render, run in order after it: the week reset,
\* the filter effect, and on mount the auto-refresh effect.
RunEffects ==
  /\ effects # {}
  /\ selectedWeek' = IF "weekReset" \in effects THEN null ELSE selectedWeek
  /\ filteredData' =
       IF "filter" \in effects /\ data # <<>>
       THEN filtered(data, filter, selectedMonth, selectedWeek, now)
       ELSE filteredData
  /\ IF "autoRefresh" \in effects
     THEN startFetch /\ timerOn' = TRUE
     ELSE UNCHANGED <<timerOn, inflight, issued, lastResponse>>
  /\ effects' = effectsAfter(filter, selectedMonth, selectedWeek', FALSE, FALSE)
  /\ UNCHANGED <<data, salesByPerson, filter, selectedMonth, availableMonths,
                 showWeekPicker, clock>>

\* setInterval(fetchData, 1000): a tick starts a fetch whatever is in flight
Tick ==
  /\ timerOn
  /\ inflight = {} \/ issued < MaxFetches
  /\ startFetch
  /\ UNCHANGED <<stateVars, effects, timerOn, clock>>

\* a fetchData that drops the answer to a request issued before the one whose
\* answer it processed last (latest request wins)
fetchDataResolvedLatestRequest(id, status, locals) ==
  /\ lastResponse' = [stamp |-> id, late |-> lastResponse.stamp > id,
                      status |-> status, aggregated |-> locals.aggregated]
  /\ IF id < lastResponse.stamp
     THEN UNCHANGED <<stateVars, effects>>
     ELSE /\ data' = locals.aggregated
          /\ filteredData' = locals.aggregated
          /\ salesByPerson' = locals.personArray
          /\ availableMonths' = locals.uniqueMonths
          /\ effects' = effectsAfter(filter, selectedMonth, selectedWeek, TRUE, FALSE)
          /\ UNCHANGED <<filter, selectedMonth, showWeekPicker, selectedWeek>>

\* fetchData from its await on, the request `id` answered: the four setters
fetchDataResolved(id, status, locals) ==
  /\ data' = locals.aggregated
  /\ filteredData' = locals.aggregated
  /\ salesByPerson' = locals.personArray
  /\ availableMonths' = locals.uniqueMonths
  /\ effects' = effectsAfter(filter, selectedMonth, selectedWeek, TRUE, FALSE)
  /\ lastResponse' = [stamp |-> id, late |-> lastResponse.stamp > id,
                      status |-> status, aggregated |-> locals.aggregated]
  /\ UNCHANGED <<filter, selectedMonth, showWeekPicker, selectedWeek>>

\* a request answered by the endpoint, with 200 or with 500
FetchResponse ==
  /\ effects = {}
  /\ \E id \in inflight, a \in Answers :
       /\ inflight' = inflight \ {id}
       /\ fetchDataResolved(id, a.status, a.locals)
  /\ UNCHANGED <<timerOn, issued, clock>>

\* fetch() or res.json() throwing: the catch logs and sets nothing
FetchThrows ==
  /\ effects = {}
  /\ \E id \in inflight : inflight' = inflight \ {id}
  /\ UNCHANGED <<stateVars, effects, timerOn, issued, lastResponse, clock>>

\* A handler's state updates, committed in one render.
commit(f, month, week, weekIsNew, picker) ==
  /\ effects = {}
  /\ filter' = f
  /\ selectedMonth' = month
  /\ selectedWeek' = week
  /\ showWeekPicker' = picker
  /\ effects' = effectsAfter(f, month, week, FALSE, weekIsNew)
  /\ UNCHANGED <<data, filteredData, salesByPerson, availableMonths,
                 timerOn, inflight, issued, lastResponse, clock>>

ClickDaily == commit("daily", selectedMonth, null, FALSE, showWeekPicker)

ClickWeekly ==
  IF selectedMonth # all
  THEN commit("weekly", selectedMonth, selectedWeek, FALSE, TRUE)
  ELSE commit("weekly", selectedMonth, null, FALSE, showWeekPicker)

ClickMonthly == commit("monthly", selectedMonth, null, FALSE, showWeekPicker)

ClickAll == commit("all", selectedMonth, null, FALSE, showWeekPicker)

\* the month dropdown: 'all' or one of availableMonths, other than the current
ChangeMonth ==
  \E m \in {all} \cup {availableMonths[i] : i \in 1..Len(availableMonths)} :
    /\ m # selectedMonth
    /\ commit(filter, m, selectedWeek, FALSE, showWeekPicker)

\* a week button of the week picker
PickWeek ==
  /\ showWeekPicker
  /\ selectedMonth # all
  /\ \E i \in 1..Len(weeksOfSelectedMonth) :
       commit(filter, selectedMonth, weeksOfSelectedMonth[i], TRUE, FALSE)

\* the Cancel button of the week picker
CancelWeekPicker ==
  /\ showWeekPicker
  /\ selectedMonth # all
  /\ commit(filter, selectedMonth, selectedWeek, FALSE, FALSE)

\* time passing between the events
TimePasses ==
  /\ clock < MaxClock
  /\ clock' = clock + 1
  /\ UNCHANGED <<stateVars, effects, timerOn, inflight, issued, lastResponse>>

others == <<weekVars, normVars>>

PageNext ==
  \/ RunEffects /\ UNCHANGED others
  \/ Tick /\ UNCHANGED others
  \/ FetchResponse /\ UNCHANGED others
  \/ FetchThrows /\ UNCHANGED others
  \/ ClickDaily /\ UNCHANGED others
  \/ ClickWeekly /\ UNCHANGED others
  \/ ClickMonthly /\ UNCHANGED others
  \/ ClickAll /\ UNCHANGED others
  \/ ChangeMonth /\ UNCHANGED others
  \/ PickWeek /\ UNCHANGED others
  \/ CancelWeekPicker /\ UNCHANGED others
  \/ TimePasses /\ UNCHANGED others

vars == <<weekVars, normVars, pageVars>>

Next == PageNext

\* The page mounted; getWeeksOfMonth and the aggregation are followed step by
\* step only under their own specifications below.
Init == PageInit /\ WeeksIdle /\ NormIdle

Spec == Init /\ [][Next]_vars

NextNormalize ==
  \/ NormRow /\ UNCHANGED <<weekVars, pageVars>>
  \/ NormSort /\ UNCHANGED <<weekVars, pageVars>>

InitNormalize == NormInit /\ WeeksIdle /\ PageIdle

SpecNormalize == InitNormalize /\ [][NextNormalize]_vars

NextWeeks ==
  \/ WeeksEnter /\ UNCHANGED <<normVars, pageVars>>
  \/ WeeksIterate /\ UNCHANGED <<normVars, pageVars>>
  \/ WeeksReturn /\ UNCHANGED <<normVars, pageVars>>

InitWeeks == WeeksInit /\ NormIdle /\ PageIdle

SpecWeeks == InitWeeks /\ [][NextWeeks]_vars

(***************************************************************************)
(* Properties                                                              *)
(***************************************************************************)
\* a <= b for formatted dates
dateLeq(a, b) == a = b \/ dateLess(a, b)

\* a fetch completed in this step: by throwing, or answered with a non-2xx
fetchCompleted == inflight' # inflight /\ inflight' \subseteq inflight

fetchThrew == fetchCompleted /\ lastResponse' = lastResponse

fetchAnswered == fetchCompleted /\ lastResponse' # lastResponse

\* C1: whenever a week is selected, it is one of the ranges getWeeksOfMonth
\* yields for the selected month (a week selection is never stale).
C1_WeekNeverStale ==
  selectedWeek # null =>
    selectedMonth # all /\ seqIncludes(getWeeksOfMonth(selectedMonth), selectedWeek)

\* C2: a refresh that fails, by throwing or by a non-2xx answer, leaves data,
\* filteredData and salesByPerson as they were.
C2_FailedRefreshKeepsView ==
  [][fetchThrew \/ (fetchAnswered /\ lastResponse'.status # 200)
       => data' = data /\ filteredData' = filteredData
          /\ salesByPerson' = salesByPerson]_vars

\* C3: the state rendered when fetchData has stored a new aggregate list shows
\* that list under the current mode, month and week filter.
C3_RefreshShowsFiltered ==
  [][fetchAnswered
       => filteredData' = filtered(data', filter', selectedMonth', selectedWeek', now')]_vars

\* C4: the timer starts a fetch whatever is in flight, and once every fetch in
\* flight has completed the data is that of the response processed last.
C4_LastResponseWins ==
  /\ inflight = {} => data = lastResponse.aggregated
  /\ timerOn /\ (inflight = {} \/ issued < MaxFetches) => ENABLED Tick

\* C4 witness: two fetches overlapped, the one issued first was answered last,
\* and its rows are the data.
C4_Witness ==
  /\ inflight = {}
  /\ lastResponse.stamp > 0
  /\ lastResponse.late
  /\ data # <<>>
  /\ data = lastResponse.aggregated

RECURSIVE sumSalesCount(_)
sumSalesCount(s) ==
  IF s = <<>> THEN 0 ELSE Head(s).SalesCount + sumSalesCount(Tail(s))

RECURSIVE sumRevenue(_)
sumRevenue(s) == IF s = <<>> THEN 0 ELSE Head(s).Revenue + sumRevenue(Tail(s))

\* whether a raw row has both a Date and a Revenue value
hasDateAndRevenue(row) == row.Date # <<>> /\ row.Revenue # ""

\* the number of such rows of a sheet, and the sum of their parsed revenue
RECURSIVE countValid(_)
countValid(rows) ==
  IF rows = <<>> THEN 0
  ELSE (IF hasDateAndRevenue(Head(rows)) THEN 1 ELSE 0) + countValid(Tail(rows))

RECURSIVE sumParsedRevenue(_)
sumParsedRevenue(rows) ==
  IF rows = <<>> THEN 0
  ELSE (IF hasDateAndRevenue(Head(rows)) THEN NumberOrZero(Head(rows).Revenue) ELSE 0)
         + sumParsedRevenue(Tail(rows))

\* C5: the SalesCount of the daily aggregates add up to the number of valid
\* rows and their Revenue to the parsed revenue of the valid rows, after every
\* row of the loop and in the sorted result, which is the list aggregatedOf
\* gives.
C5_Conservation ==
  /\ npc = "forEach" =>
       /\ sumSalesCount(dailyMap) = rowIndex
       /\ rowIndex <= countValid(sheetData)
  /\ npc = "done" =>
       /\ sumSalesCount(aggregated) = countValid(sheetData)
       /\ sumRevenue(aggregated) = sumParsedRevenue(sheetData)
       /\ aggregated = aggregatedOf(sheetData)

\* C5 witness: two rows with unparseable dates, one of them with a
\* non-numeric revenue, collapsed into the 'Unknown' bucket and both counted.
C5_Witness ==
  /\ npc = "done"
  /\ Len(aggregated) = 1
  /\ aggregated[1].Date = Unknown
  /\ aggregated[1].SalesCount = 2
  /\ aggregated[1].Revenue = 100

\* the number of days of a month, and the days a range spans
isLeapYear(y) == (y % 4 = 0 /\ y % 100 # 0) \/ y % 400 = 0

daysInMonth(y, m) ==
  IF m = 2 THEN (IF isLeapYear(y) THEN 29 ELSE 28)
  ELSE IF m \in {4, 6, 9, 11} THEN 30 ELSE 31

dayNumber(date) == DaysFromCivil(date[1], date[2], date[3])

spanOf(range) == dayNumber(range.end) - dayNumber(range.start) + 1

\* the month number and year of a valid "Month Year" input
monthNumberOf(my) == CHOOSE i \in 1..12 : MonthNames[i] = my[1]

yearNumberOf(my) == CHOOSE y \in Years : ToString(y) = my[2]

\* C6: for a valid month getWeeksOfMonth terminates (each pass of the loop
\* moves current forward, and at most 6 ranges are pushed) with at least one
\* range; the first starts on the first day of the month, each next one starts
\* the day after the previous one ends, and the last ends on the last day of
\* the month.
C6_WeekCoverage ==
  monthYear \in ValidMonthYears =>
    LET y == yearNumberOf(monthYear)
        m == monthNumberOf(monthYear)
        endOfMonth == endOfMonthOf(weekStartOfMonth(monthYear))
    IN  /\ Len(weeks) <= 6
        /\ wpc = "loop" /\ weekLoopCond(current, endOfMonth) =>
             isAfter(weekNextCurrent(current, endOfMonth), current)
        /\ wpc = "done" =>
             /\ Len(weeks) >= 1
             /\ weeks[1].start = <<y, m, 1>>
             /\ weeks[Len(weeks)].end = <<y, m, daysInMonth(y, m)>>
             /\ \A i \in 1..Len(weeks) : spanOf(weeks[i]) >= 1
             /\ \A i \in 1..(Len(weeks) - 1) :
                  dayNumber(weeks[i + 1].start) = dayNumber(weeks[i].end) + 1
             /\ weeks = getWeeksOfMonth(monthYear)

\* C6 witness: a month of six ranges, returned.
C6_Witness ==
  /\ wpc = "done"
  /\ monthYear \in ValidMonthYears
  /\ Len(weeks) = 6
  /\ weeks[6].end = <<yearNumberOf(monthYear), monthNumberOf(monthYear), 31>>

\* C7 as stated: every range but the last spans exactly 7 days.
C7_OnlyLastShort ==
  wpc = "done" /\ monthYear \in ValidMonthYears =>
    \A i \in 1..(Len(weeks) - 1) : spanOf(weeks[i]) = 7

\* C7 as amended: every range but the first and the last spans exactly 7 days
\* (Sunday to Saturday); the first ends on the first Saturday of the month, or
\* on its last day when that comes first, so it is 7 days long only when the
\* month starts on a Sunday.
C7_OnlyFirstAndLastShort ==
  wpc = "done" /\ monthYear \in ValidMonthYears =>
    LET firstDay == DaysFromCivil(yearNumberOf(monthYear), monthNumberOf(monthYear), 1)
    IN  /\ \A i \in 2..(Len(weeks) - 1) :
             /\ spanOf(weeks[i]) = 7
             /\ DayOfWeek(dayNumber(weeks[i].start)) = 0
        /\ \A i \in 1..Len(weeks) : spanOf(weeks[i]) <= 7
        /\ Len(weeks) >= 2 => spanOf(weeks[1]) = 7 - DayOfWeek(firstDay)

\* C7 witness: a month that starts in mid-week, its first range short.
C7_Witness ==
  /\ wpc = "done"
  /\ monthYear \in ValidMonthYears
  /\ Len(weeks) >= 3
  /\ spanOf(weeks[1]) < 7
  /\ spanOf(weeks[2]) = 7

\* whether an aggregate's date is a calendar date of the week's inclusive range
dateInWeek(item, week) ==
  /\ Len(item.Date) = 3
  /\ dateLeq(week.start, item.Date)
  /\ dateLeq(item.Date, week.end)

\* whether an aggregate's date is a calendar date later than t minus 7 days
\* and not later than t
dateInTrailingWeek(item, t) ==
  /\ Len(item.Date) = 3
  /\ dayNumber(item.Date) * TicksPerDay > t.t - 7 * TicksPerDay
  /\ dayNumber(item.Date) * TicksPerDay <= t.t

\* the filter effect ran in this step
effectsRan == effects # {} /\ effects' # effects

\* C8: in weekly mode with a month and a week selected, once the effects have
\* run, filteredData is exactly the aggregates of data dated within the week.
C8_WeekFilterExact ==
  effects = {} /\ filter = "weekly" /\ selectedMonth # all /\ selectedWeek # null =>
    filteredData = SelectSeq(data, LAMBDA item : dateInWeek(item, selectedWeek))

\* C9: in weekly mode with no week chosen, the filter effect leaves in
\* filteredData exactly the aggregates dated within the 7 days ending now.
C9_TrailingWeekExact ==
  [][effectsRan /\ "filter" \in effects /\ data # <<>>
       /\ filter = "weekly" /\ selectedWeek = null
       => filteredData' = SelectSeq(data, LAMBDA item : dateInTrailingWeek(item, now))]_vars

\* C10: with mode 'all' and month 'all', once the effects have run,
\* filteredData is data, the same aggregates in the same order.
C10_AllAllIsNoOp ==
  effects = {} /\ filter = "all" /\ selectedMonth = all => filteredData = data

\* C10 witness: after refreshes, a month selected, weekly mode entered and the
\* selection set back to 'all' and 'all', two aggregates are shown unfiltered.
C10_Witness ==
  /\ effects = {}
  /\ filter = "all"
  /\ selectedMonth = all
  /\ showWeekPicker
  /\ Len(data) = 2
  /\ filteredData = data

\* C11: whenever a week is selected, the mode is 'weekly'.
C11_WeekImpliesWeekly == selectedWeek # null => filter = "weekly"

====
